---- MODULE Spec2Model ----
(***************************************************************************)
(* Model of src/app.py: the shift-metrics API.  Two MongoDB collections    *)
(* (metrics_collection, daily_max_collection), the request handlers that   *)
(* touch them, and the daily-maximum aggregator.  A handler is a sequence  *)
(* of store operations; each store operation is one atomic step.           *)
(*                                                                         *)
(* Documents are functions from field names to values.  A collection is    *)
(* the sequence of its documents in natural (retrieval) order.  A JSON     *)
(* scalar is [kind, n]: kind is its Python type after BSON decoding, n its *)
(* magnitude in halves (int 1 -> 2, float 1.5 -> 3, True -> 2), so that    *)
(* Python's mixed int/float/bool comparison is integer comparison of n.    *)
(*                                                                         *)
(* Input assumptions: a POST /add body is a JSON object that carries       *)
(* "date" and "day-shift"; a metric group, when present, is a JSON object. *)
(***************************************************************************)
EXTENDS Integers, Sequences, FiniteSets, TLC

VARIABLES
    metrics_collection,    \* db.system_metrics
    daily_max_collection,  \* db.daily_max_metrics
    pc,                    \* per handler thread: position in its handler
    req,                   \* per handler thread: locals and last response
    hadThree               \* history: dates that have held exactly 3 records

vars == <<metrics_collection, daily_max_collection, pc, req, hadThree>>

----------------------------------------------------------------------------
(* Bounds *)

MaxRecords == 4
MaxSummaries == 2
CrudMaxRecords == 3

Handlers == {1, 2}
SeqHandlers == {1}
Dates == {"d1", "d2"}
DayShifts == {1, 2}
Components == {"a", "b"}

----------------------------------------------------------------------------
(* JSON values *)

Int1 == [kind |-> "int", n |-> 2]
Int2 == [kind |-> "int", n |-> 4]
Flt15 == [kind |-> "float", n |-> 3]
BoolTrue == [kind |-> "bool", n |-> 2]
StrX == [kind |-> "str", n |-> 0]
Null == [kind |-> "null", n |-> 0]
Nested == [kind |-> "object", n |-> 0]

EmptyMap == [c \in {} |-> Null]

\* All JSON objects with keys among K and values among V.
Maps(K, V) == UNION {[D -> V] : D \in SUBSET K}

Min(S) == CHOOSE x \in S : \A y \in S : x <= y

----------------------------------------------------------------------------
(* dict and collection primitives *)

\* dict.get(key, default)
Get(doc, key, default) == IF key \in DOMAIN doc THEN doc[key] ELSE default

\* collection.find({"date": date}) in natural order
Find(coll, date) == SelectSeq(coll, LAMBDA d : d.date = date)

\* collection.count_documents({"date": date})
CountDocuments(coll, date) ==
    Cardinality({i \in 1..Len(coll) : coll[i].date = date})

\* index of the first document matching {"date": date, "day-shift": day_shift}, 0 if none
FirstMatch(coll, date, day_shift) ==
    LET S == {i \in 1..Len(coll) :
                 coll[i].date = date /\ coll[i].day_shift = day_shift}
    IN  IF S = {} THEN 0 ELSE Min(S)

\* {"$set": updated_data} applied to one document
SetFields(doc, updated_data) ==
    [f \in DOMAIN doc \cup DOMAIN updated_data |->
        IF f \in DOMAIN updated_data THEN updated_data[f] ELSE doc[f]]

UpdateOne_Many(coll, date, day_shift, updated_data) ==
    [i \in 1..Len(coll) |->
        IF coll[i].date = date /\ coll[i].day_shift = day_shift
        THEN SetFields(coll[i], updated_data) ELSE coll[i]]

\* collection.update_one(filter, {"$set": updated_data}): first match only
UpdateOne(coll, date, day_shift, updated_data) ==
    LET i == FirstMatch(coll, date, day_shift)
    IN  IF i = 0 THEN coll
        ELSE [coll EXCEPT ![i] = SetFields(@, updated_data)]

\* collection.delete_one(filter): first match only
DeleteOne(coll, date, day_shift) ==
    LET i == FirstMatch(coll, date, day_shift)
    IN  IF i = 0 THEN coll
        ELSE SubSeq(coll, 1, i - 1) \o SubSeq(coll, i + 1, Len(coll))

----------------------------------------------------------------------------
(* calculate_and_store_max_metrics: the reduction *)

\* isinstance(value, (int, float)); bool is a subclass of int
IsNumeric(value) == value.kind \in {"int", "float", "bool"}

\* one shift's loop over a metric group
MergeMax(max_map, usage) ==
    [key \in DOMAIN max_map \cup {k \in DOMAIN usage : IsNumeric(usage[k])} |->
        IF /\ key \in DOMAIN usage
           /\ IsNumeric(usage[key])
           /\ (key \notin DOMAIN max_map \/ usage[key].n > max_map[key].n)
        THEN usage[key] ELSE max_map[key]]

MergeAvail_LastWins(application_availability, app_avail) ==
    [key \in DOMAIN application_availability \cup DOMAIN app_avail |->
        IF key \in DOMAIN app_avail
        THEN app_avail[key] ELSE application_availability[key]]

\* one shift's loop over Application_Availability: first write wins
MergeAvail(application_availability, app_avail) ==
    [key \in DOMAIN application_availability \cup DOMAIN app_avail |->
        IF key \in DOMAIN application_availability
        THEN application_availability[key] ELSE app_avail[key]]

RECURSIVE ReduceShifts(_, _, _)
\* the loop over shifts, from index i on, acc = the three dictionaries
ReduceShifts(shifts, i, acc) ==
    IF i > Len(shifts) THEN acc
    ELSE ReduceShifts(shifts, i + 1,
            [max_cpu |-> MergeMax(acc.max_cpu,
                                  Get(shifts[i], "cpu_usage", EmptyMap)),
             max_memory |-> MergeMax(acc.max_memory,
                                     Get(shifts[i], "memory_usage", EmptyMap)),
             application_availability |->
                 MergeAvail(acc.application_availability,
                            Get(shifts[i], "Application_Availability", EmptyMap))])

\* the max_metrics document
MaxMetrics(date, shifts) ==
    LET acc == ReduceShifts(shifts, 1,
                   [max_cpu |-> EmptyMap, max_memory |-> EmptyMap,
                    application_availability |-> EmptyMap])
    IN  [date |-> date,
         cpu_usage |-> acc.max_cpu,
         memory_usage |-> acc.max_memory,
         application_availability |-> acc.application_availability]

TriggerFires_AtLeast(shift_count) == shift_count >= 3

\* if shift_count == 3
TriggerFires(shift_count) == shift_count = 3

NotEnoughShifts_Two(n) == n < 2

NotEnoughShifts_AtMostThree(n) == n <= 3

\* if len(shifts) < 3
NotEnoughShifts(n) == n < 3

\* daily_max_collection.find_one({"date": date}) and the status returned
GetDailyMaxStatus(coll, date) ==
    IF \E i \in 1..Len(coll) : coll[i].date = date THEN 200 ELSE 404

InsertSummary_Upsert(coll, max_metrics) ==
    IF \E i \in 1..Len(coll) : coll[i].date = max_metrics.date
    THEN [i \in 1..Len(coll) |->
             IF coll[i].date = max_metrics.date THEN max_metrics ELSE coll[i]]
    ELSE Append(coll, max_metrics)

\* daily_max_collection.insert_one(max_metrics): no uniqueness on date
InsertSummary(coll, max_metrics) == Append(coll, max_metrics)

----------------------------------------------------------------------------
(* Handler threads *)

NoDoc == <<>>

\* a handler's locals before any request: nothing counted, aggregator not run
NoRequest ==
    [op |-> "none", date |-> "", status |-> 0, shift_count |-> -1,
     found |-> -1, wrote |-> FALSE,
     counted |-> <<>>, shifts |-> <<>>, max_metrics |-> NoDoc]

\* history: the dates that hold exactly 3 records in coll join the set
HadThreeAfter(coll) ==
    hadThree \cup {d \in Dates : CountDocuments(coll, d) = 3}

InFlight == {h \in Handlers : pc[h] # "idle"}

Init ==
    /\ metrics_collection = <<>>
    /\ daily_max_collection = <<>>
    /\ pc = [h \in Handlers |-> "idle"]
    /\ req = [h \in Handlers |-> NoRequest]
    /\ hadThree = {}

\* POST /add, empty or missing body: 400, nothing inserted
add_data_invalid(h) ==
    /\ pc[h] = "idle"
    /\ req' = [req EXCEPT ![h] = [NoRequest EXCEPT !.op = "add", !.status = 400]]
    /\ UNCHANGED <<metrics_collection, daily_max_collection, pc, hadThree>>

\* POST /add: metrics_collection.insert_one(data)
add_data(h, data) ==
    /\ pc[h] = "idle"
    /\ metrics_collection' = Append(metrics_collection, data)
    /\ hadThree' = HadThreeAfter(metrics_collection')
    /\ pc' = [pc EXCEPT ![h] = "count"]
    /\ req' = [req EXCEPT ![h] = [NoRequest EXCEPT !.op = "add", !.date = data.date]]
    /\ UNCHANGED daily_max_collection

\* POST /add: shift_count = count_documents({"date": date}); the trigger
add_data_count(h) ==
    /\ pc[h] = "count"
    /\ LET shift_count == CountDocuments(metrics_collection, req[h].date)
       IN  IF TriggerFires(shift_count)
           THEN /\ pc' = [pc EXCEPT ![h] = "find"]
                /\ req' = [req EXCEPT ![h].shift_count = shift_count,
                                      ![h].counted =
                                          Find(metrics_collection, req[h].date)]
           ELSE /\ pc' = [pc EXCEPT ![h] = "idle"]
                /\ req' = [req EXCEPT ![h].shift_count = shift_count,
                                      ![h].status = 201]
    /\ UNCHANGED <<metrics_collection, daily_max_collection, hadThree>>

\* aggregator: shifts = find({"date": date}), the length check, the reduction
calculate_max_metrics(h) ==
    /\ pc[h] = "find"
    /\ LET shifts == Find(metrics_collection, req[h].date)
       IN  IF NotEnoughShifts(Len(shifts))
           THEN /\ pc' = [pc EXCEPT ![h] = "idle"]
                /\ req' = [req EXCEPT ![h].found = Len(shifts),
                                      ![h].counted = <<>>,
                                      ![h].status = 201]
           ELSE /\ pc' = [pc EXCEPT ![h] = "store"]
                /\ req' = [req EXCEPT ![h].found = Len(shifts),
                                      ![h].shifts = shifts,
                                      ![h].max_metrics =
                                          MaxMetrics(req[h].date, shifts)]
    /\ UNCHANGED <<metrics_collection, daily_max_collection, hadThree>>

\* aggregator: daily_max_collection.insert_one(max_metrics); then add_data returns 201
store_max_metrics(h) ==
    /\ pc[h] = "store"
    /\ daily_max_collection' =
           InsertSummary(daily_max_collection, req[h].max_metrics)
    /\ pc' = [pc EXCEPT ![h] = "idle"]
    /\ req' = [req EXCEPT ![h].wrote = TRUE,
                          ![h].counted = <<>>,
                          ![h].shifts = <<>>,
                          ![h].max_metrics = NoDoc,
                          ![h].status = 201]
    /\ UNCHANGED <<metrics_collection, hadThree>>

\* GET /get-daily-max/<date>
get_daily_max(h, date) ==
    /\ pc[h] = "idle"
    /\ req' = [req EXCEPT ![h] =
                  [NoRequest EXCEPT !.op = "get", !.date = date,
                       !.status = GetDailyMaxStatus(daily_max_collection, date)]]
    /\ UNCHANGED <<metrics_collection, daily_max_collection, pc, hadThree>>

\* PUT /update/<date>/<day_shift>, empty or missing body: 400
update_shift_data_invalid(h, date) ==
    /\ pc[h] = "idle"
    /\ req' = [req EXCEPT ![h] =
                  [NoRequest EXCEPT !.op = "update", !.date = date, !.status = 400]]
    /\ UNCHANGED <<metrics_collection, daily_max_collection, pc, hadThree>>

update_shift_data_Reaggregates(h, date, day_shift, updated_data) ==
    /\ pc[h] = "idle"
    /\ metrics_collection' =
           UpdateOne(metrics_collection, date, day_shift, updated_data)
    /\ hadThree' = HadThreeAfter(metrics_collection')
    /\ daily_max_collection' =
           [i \in 1..Len(daily_max_collection) |->
               IF daily_max_collection[i].date = date
               THEN MaxMetrics(date, Find(metrics_collection', date))
               ELSE daily_max_collection[i]]
    /\ req' = [req EXCEPT ![h] =
                  [NoRequest EXCEPT !.op = "update", !.date = date,
                       !.status =
                           IF FirstMatch(metrics_collection, date, day_shift) = 0
                           THEN 404 ELSE 200]]
    /\ UNCHANGED pc

\* PUT /update/<date>/<day_shift>
update_shift_data(h, date, day_shift, updated_data) ==
    /\ pc[h] = "idle"
    /\ metrics_collection' =
           UpdateOne(metrics_collection, date, day_shift, updated_data)
    /\ hadThree' = HadThreeAfter(metrics_collection')
    /\ req' = [req EXCEPT ![h] =
                  [NoRequest EXCEPT !.op = "update", !.date = date,
                       !.status =
                           IF FirstMatch(metrics_collection, date, day_shift) = 0
                           THEN 404 ELSE 200]]
    /\ UNCHANGED <<daily_max_collection, pc>>

\* DELETE /delete/<date>/<day_shift>
delete_shift_data(h, date, day_shift) ==
    /\ pc[h] = "idle"
    /\ metrics_collection' = DeleteOne(metrics_collection, date, day_shift)
    /\ hadThree' = HadThreeAfter(metrics_collection')
    /\ req' = [req EXCEPT ![h] =
                  [NoRequest EXCEPT !.op = "delete", !.date = date,
                       !.status =
                           IF FirstMatch(metrics_collection, date, day_shift) = 0
                           THEN 404 ELSE 200]]
    /\ UNCHANGED <<daily_max_collection, pc>>

----------------------------------------------------------------------------
(* Request inputs *)

ShiftDoc(date, day_shift, cpu_usage, memory_usage, app_avail) ==
    [date |-> date, day_shift |-> day_shift, cpu_usage |-> cpu_usage,
     memory_usage |-> memory_usage, Application_Availability |-> app_avail]

Up == [kind |-> "str", n |-> 1]
Down == [kind |-> "str", n |-> 2]

CpuLow == [c \in {"a"} |-> Int1]
CpuHigh == [c \in {"a"} |-> Int2]
MemLow == [c \in {"a"} |-> Int1]
AvailUp == [c \in {"a"} |-> Up]

\* room for one more shift record and for the summary every add in flight may write
CanAdd(max_records) ==
    /\ Len(metrics_collection) < max_records
    /\ Len(daily_max_collection) + Cardinality(InFlight) < MaxSummaries

----------------------------------------------------------------------------
(* Sequential processing: one handler thread, one request at a time *)

AddBodies == {ShiftDoc(d, 1, CpuLow, MemLow, AvailUp) : d \in Dates}
UpdateBodies == {[f \in {"date"} |-> "d2"]}

Next ==
    \E h \in SeqHandlers :
        \/ add_data_invalid(h)
        \/ \E data \in AddBodies : CanAdd(MaxRecords) /\ add_data(h, data)
        \/ add_data_count(h)
        \/ calculate_max_metrics(h)
        \/ store_max_metrics(h)
        \/ \E date \in Dates : get_daily_max(h, date)
        \/ \E date \in Dates, body \in UpdateBodies :
               update_shift_data(h, date, 1, body)
        \/ \E date \in Dates : delete_shift_data(h, date, 1)

Spec == Init /\ [][Next]_vars

----------------------------------------------------------------------------
(* Sequential processing, update and delete in detail: several day-shifts, *)
(* duplicates of a (date, day-shift) pair, bodies that set one or two      *)
(* fields                                                                  *)

CrudAddBodies == {ShiftDoc("d1", s, CpuLow, MemLow, AvailUp) : s \in DayShifts}
CrudUpdateBodies ==
    {[f \in {"cpu_usage"} |-> CpuHigh],
     [f \in {"date", "day_shift"} |-> IF f = "date" THEN "d2" ELSE 1]}

CrudNext ==
    \E h \in SeqHandlers :
        \/ \E data \in CrudAddBodies : CanAdd(CrudMaxRecords) /\ add_data(h, data)
        \/ add_data_count(h)
        \/ calculate_max_metrics(h)
        \/ store_max_metrics(h)
        \/ \E date \in Dates : update_shift_data_invalid(h, date)
        \/ \E date \in Dates, day_shift \in DayShifts, body \in CrudUpdateBodies :
               update_shift_data(h, date, day_shift, body)
        \/ \E date \in Dates, day_shift \in DayShifts :
               delete_shift_data(h, date, day_shift)

CrudSpec == Init /\ [][CrudNext]_vars

----------------------------------------------------------------------------
(* Concurrent processing: handler threads interleave at store operations *)

ConcAddBodies == {ShiftDoc("d1", 1, CpuLow, MemLow, AvailUp)}
ConcUpdateBodies == {[f \in {"cpu_usage"} |-> CpuHigh]}

ConcNext ==
    \E h \in Handlers :
        \/ \E data \in ConcAddBodies : CanAdd(MaxRecords) /\ add_data(h, data)
        \/ add_data_count(h)
        \/ calculate_max_metrics(h)
        \/ store_max_metrics(h)
        \/ get_daily_max(h, "d1")
        \/ \E body \in ConcUpdateBodies : update_shift_data(h, "d1", 1, body)
        \/ delete_shift_data(h, "d1", 1)

ConcSpec == Init /\ [][ConcNext]_vars

----------------------------------------------------------------------------
(* The reduction on its own: three shift records of one date are stored,   *)
(* the third insert has just counted 3, and the aggregator runs.           *)

AggCpuMaps ==
    {m \in Maps(Components, {Int1, Int2, Flt15, BoolTrue, StrX, Null}) :
        "b" \in DOMAIN m => m["b"] \in {Int1, Null}}
AggMemMaps == Maps({"a"}, {Int1, Int2, Nested})
AggAvailMaps ==
    Maps({"a"}, {Up, Down}) \cup {[c \in {"b"} |-> Down],
                                  [c \in Components |-> IF c = "a" THEN Down ELSE Up]}

\* the bodies of the three inserts; one body carries no metric group at all
AggBodies(day_shift) ==
    {ShiftDoc("d1", day_shift, cpu, EmptyMap, EmptyMap) : cpu \in AggCpuMaps}
    \cup {ShiftDoc("d1", day_shift, CpuLow, mem, avail) :
              mem \in AggMemMaps, avail \in AggAvailMaps}
    \cup {[date |-> "d1", day_shift |-> day_shift]}

AggInit ==
    /\ metrics_collection \in
           {<<x, y, z>> : x \in AggBodies(1), y \in AggBodies(2), z \in AggBodies(3)}
    /\ daily_max_collection = <<>>
    /\ pc = [h \in Handlers |-> IF h = 1 THEN "find" ELSE "idle"]
    /\ req = [h \in Handlers |->
                 IF h = 1
                 THEN [NoRequest EXCEPT !.op = "add", !.date = "d1",
                           !.shift_count = 3, !.counted = metrics_collection]
                 ELSE NoRequest]
    /\ hadThree = {"d1"}

AggNext ==
    \E h \in SeqHandlers :
        \/ calculate_max_metrics(h)
        \/ store_max_metrics(h)
        \/ get_daily_max(h, "d1")

AggSpec == AggInit /\ [][AggNext]_vars

----------------------------------------------------------------------------
(* Properties *)

SummariesFor(date) ==
    {i \in 1..Len(daily_max_collection) : daily_max_collection[i].date = date}

AddDone(h) == pc[h] = "idle" /\ req[h].op = "add" /\ req[h].status = 201

\* C1: under sequential processing, a completed POST /add has run the
\* aggregator if and only if the date of its record holds exactly 3 shift
\* records after the insert (1, 2 or more than 3 never run it), the count it
\* read is that number, and no handler other than POST /add runs the aggregator.
C1_TriggerIffExactlyThree ==
    \A h \in Handlers :
        /\ AddDone(h) =>
               /\ req[h].shift_count = CountDocuments(metrics_collection, req[h].date)
               /\ (req[h].found # -1) <=>
                      (CountDocuments(metrics_collection, req[h].date) = 3)
        /\ (pc[h] \in {"find", "store"} \/ req[h].found # -1) => req[h].op = "add"

C1_Witness ==
    \E h \in Handlers :
        /\ AddDone(h) /\ req[h].found = 3 /\ req[h].wrote
        /\ Len(metrics_collection) = 4

\* C2: under sequential processing the summary store holds at most one Daily
\* Maximum Record per date.
C2_AtMostOneSummaryPerDate ==
    \A d \in Dates : Cardinality(SummariesFor(d)) <= 1

\* the values a date's shift records give for component c in a metric group
GroupValues(shifts, group, c) ==
    {Get(shifts[j], group, EmptyMap)[c] :
        j \in {k \in 1..Len(shifts) : c \in DOMAIN Get(shifts[k], group, EmptyMap)}}

MaxN(S) == CHOOSE x \in {v.n : v \in S} : \A v \in S : v.n <= x

\* numeric in the sense of the claim: a JSON number, not a boolean
IsNumeric_NoBool(value) == value.kind \in {"int", "float"}

\* the maximum maps hold, per component, the largest of the values accepted by
\* Numeric(_) and nothing for a component without such a value
MaxMapsOver(Numeric(_)) ==
    \A i \in 1..Len(daily_max_collection) :
      \A group \in {"cpu_usage", "memory_usage"} :
        \A c \in Components :
          LET summary == daily_max_collection[i]
              nums == {v \in GroupValues(Find(metrics_collection, summary.date),
                                         group, c) : Numeric(v)}
          IN  IF nums = {}
              THEN c \notin DOMAIN summary[group]
              ELSE /\ c \in DOMAIN summary[group]
                   /\ Numeric(summary[group][c])
                   /\ summary[group][c].n = MaxN(nums)

\* C3: each maximum map holds for each component exactly the maximum of the
\* numeric values given for it, no entry when there is none, and values that
\* are not numeric (strings, booleans, null, nested maps) never appear in the
\* maps nor change what is stored.
C3_MaxOfNumericValues == MaxMapsOver(IsNumeric_NoBool)

\* The reduction as written: the same statement with booleans counted as
\* numbers, True as 1.
MaxMapsFollowIsinstance == MaxMapsOver(IsNumeric)

C5_NoSummary(d) ==
    /\ SummariesFor(d) = {}
    /\ GetDailyMaxStatus(daily_max_collection, d) = 404
    /\ \A h \in Handlers :
           (pc[h] = "idle" /\ req[h].op = "get" /\ req[h].date = d)
               => req[h].status = 404

C5_FewerThanThreeIsNoOp ==
    [][ /\ \A h \in Handlers :
             ( /\ pc[h] = "find"
               /\ pc'[h] # "find"
               /\ CountDocuments(metrics_collection, req[h].date) < 3 )
             => /\ daily_max_collection' = daily_max_collection
                /\ pc'[h] = "idle"
                /\ req'[h].status = 201
                /\ ~req'[h].wrote
        /\ \A d \in Dates : (d \notin hadThree') => C5_NoSummary(d)' ]_vars

C5_Witness ==
    \E h \in Handlers :
        /\ AddDone(h) /\ req[h].shift_count = 3
        /\ req[h].found = 2 /\ ~req[h].wrote
        /\ daily_max_collection = <<>>

\* C6 as stated: whenever a POST /add that counted exactly 3 has answered 201,
\* the summary of its date is stored and GET /get-daily-max/<date> answers 200.
C6_SummaryBeforeResponse ==
    \A h \in Handlers :
        (AddDone(h) /\ req[h].shift_count = 3)
            => GetDailyMaxStatus(daily_max_collection, req[h].date) = 200

\* C6 amended: whenever a POST /add that counted exactly 3, and whose
\* aggregator still found at least 3 shift records of the date, has answered
\* 201, the summary of its date is stored and GET answers 200; and a date that
\* answers 200 answers 200 ever after.
C6_SummaryBeforeResponseIfFound ==
    [][ /\ \A h \in Handlers :
             (AddDone(h)' /\ req'[h].shift_count = 3 /\ req'[h].found >= 3)
                 => GetDailyMaxStatus(daily_max_collection', req'[h].date) = 200
        /\ \A d \in Dates :
             GetDailyMaxStatus(daily_max_collection, d) = 200
                 => GetDailyMaxStatus(daily_max_collection', d) = 200 ]_vars

C6_Witness ==
    \E h \in Handlers :
        /\ AddDone(h) /\ req[h].shift_count = 3 /\ req[h].found >= 3
        /\ \E g \in Handlers :
               /\ pc[g] = "idle" /\ req[g].op = "get"
               /\ req[g].date = req[h].date /\ req[g].status = 200

\* C7: a PUT /update or DELETE /delete step leaves the summary store as it
\* was, and a step of the aggregator leaves the shift records as they were.
C7_UpdateDeleteKeepSummaries ==
    [][ \A h \in SeqHandlers :
          /\ (pc[h] = "idle" /\ req'[h].op \in {"update", "delete"})
                 => daily_max_collection' = daily_max_collection
          /\ (pc[h] \in {"find", "store"})
                 => metrics_collection' = metrics_collection ]_vars

C7_Witness ==
    \E h \in SeqHandlers :
        /\ pc[h] = "idle" /\ req[h].op \in {"update", "delete"}
        /\ req[h].status = 200
        /\ \E i \in SummariesFor(req[h].date) :
               daily_max_collection[i] #
                   MaxMetrics(req[h].date, Find(metrics_collection, req[h].date))

Matching(date, day_shift) ==
    {i \in 1..Len(metrics_collection) :
        /\ metrics_collection[i].date = date
        /\ metrics_collection[i].day_shift = day_shift}

C8_UpdatePost(h, date, day_shift, body) ==
    IF Matching(date, day_shift) = {}
    THEN /\ req'[h].status = 404
         /\ metrics_collection' = metrics_collection
         /\ daily_max_collection' = daily_max_collection
    ELSE /\ req'[h].status = 200
         /\ daily_max_collection' = daily_max_collection
         /\ Len(metrics_collection') = Len(metrics_collection)
         /\ \E i \in Matching(date, day_shift) :
              /\ \A j \in 1..Len(metrics_collection) :
                     j # i => metrics_collection'[j] = metrics_collection[j]
              /\ DOMAIN metrics_collection'[i] =
                     DOMAIN metrics_collection[i] \cup DOMAIN body
              /\ \A f \in DOMAIN metrics_collection'[i] :
                     metrics_collection'[i][f] =
                         IF f \in DOMAIN body THEN body[f]
                         ELSE metrics_collection[i][f]

C8_DeletePost(h, date, day_shift) ==
    IF Matching(date, day_shift) = {}
    THEN /\ req'[h].status = 404
         /\ metrics_collection' = metrics_collection
         /\ daily_max_collection' = daily_max_collection
    ELSE /\ req'[h].status = 200
         /\ daily_max_collection' = daily_max_collection
         /\ \E i \in Matching(date, day_shift) :
              metrics_collection' =
                  [j \in 1..(Len(metrics_collection) - 1) |->
                      IF j < i THEN metrics_collection[j]
                      ELSE metrics_collection[j + 1]]

\* C8: PUT /update and DELETE /delete answer 404 and change neither store
\* when no shift record matches (date, day-shift); otherwise they answer 200
\* and touch exactly one matching record (update sets only the fields of the
\* body, delete removes the record), every other shift record staying as it was.
C8_UpdateDeleteOneMatch ==
    [][ \A h \in SeqHandlers, date \in Dates, day_shift \in DayShifts :
          /\ \A body \in CrudUpdateBodies :
                 ( /\ req'[h].op = "update" /\ req'[h].date = date
                   /\ update_shift_data(h, date, day_shift, body) )
                     => C8_UpdatePost(h, date, day_shift, body)
          /\ ( /\ req'[h].op = "delete" /\ req'[h].date = date
               /\ delete_shift_data(h, date, day_shift) )
                 => C8_DeletePost(h, date, day_shift) ]_vars

C8_Witness ==
    \E h \in SeqHandlers :
        /\ pc[h] = "idle" /\ req[h].op = "update" /\ req[h].status = 200
        /\ \E i, j \in 1..Len(metrics_collection) :
              /\ i < j
              /\ metrics_collection[i].date = metrics_collection[j].date
              /\ metrics_collection[i].day_shift = metrics_collection[j].day_shift
              /\ metrics_collection[i].cpu_usage = CpuHigh
              /\ metrics_collection[j].cpu_usage = CpuLow

BothAggregated(h1, h2) ==
    /\ h1 # h2
    /\ AddDone(h1) /\ AddDone(h2)
    /\ req[h1].date = req[h2].date
    /\ req[h1].shift_count = 3 /\ req[h2].shift_count = 3
    /\ req[h1].wrote /\ req[h2].wrote

\* C9: two POST /add handlers of one date that interleave at store operations
\* can both count exactly 3 and both aggregate, and then the summary store
\* holds two Daily Maximum Records of that date.
C9_TwoAggregationsTwoSummaries ==
    \A h1, h2 \in Handlers :
        BothAggregated(h1, h2) => Cardinality(SummariesFor(req[h1].date)) >= 2

C9_Witness ==
    \E h1, h2 \in Handlers :
        /\ BothAggregated(h1, h2)
        /\ Cardinality(SummariesFor(req[h1].date)) = 2

\* C10: the aggregator never reduces more than three shift records and never
\* reduces a record set other than the one the trigger counted.
C10_ReducesTheCountedThree ==
    \A h \in Handlers :
        pc[h] = "store" =>
            /\ Len(req[h].shifts) = 3
            /\ req[h].shifts = req[h].counted

====
